---- MODULE Spec2Model ----
(***************************************************************************)
(* Model of ndvi_request_final.py: the pipeline main() runs                *)
(*   get_oauth_session -> request_data -> extract_tar_file ->              *)
(*   calculate_ndvi_statistics -> save_to_json                             *)
(* over a working directory that persists from one run to the next.        *)
(***************************************************************************)
EXTENDS Integers, Sequences, FiniteSets, TLC

(***************************************************************************)
(* float64 arithmetic.                                                     *)
(*                                                                         *)
(* src.read(1) / 10000 is numpy's true_divide of an int16 array: the       *)
(* result is float64, every quotient correctly rounded (round to nearest,  *)
(* ties to even) to a 53 bit significand.  np.mean adds the elements in    *)
(* float64 and divides the sum by the element count, again in float64.     *)
(*                                                                         *)
(* A magnitude is a fixed-point binary number: a sequence of NumLimbs      *)
(* limbs of LimbBits bits each, most significant first, the first IntLimbs *)
(* of them before the binary point.  Bit p (1 is the most significant)     *)
(* weighs 2^(IntLimbs * LimbBits - p).  Every float64 value the statistics *)
(* can produce lies on this grid: the quotients k / 10000 are at least     *)
(* 2^-14 and so multiples of 2^-66, the sums are multiples of 2^-66 too,   *)
(* and a sum divided by a count below 8 is at least 2^-69, so its 53 bits  *)
(* and the guard bit end above 2^-123.                                     *)
(***************************************************************************)
MantissaBits == 53
ScaleDivisor == 10000
LimbBits == 15
IntLimbs == 2
FracLimbs == 9
NumLimbs == IntLimbs + FracLimbs
TotalBits == NumLimbs * LimbBits

RECURSIVE Pow2(_)
Pow2(n) == IF n = 0 THEN 1 ELSE 2 * Pow2(n - 1)

Base == Pow2(LimbBits)

ZeroMag == [l \in 1..NumLimbs |-> 0]

\* the limb holding bit p, and the weight of bit p inside that limb
LimbOf(p) == ((p - 1) \div LimbBits) + 1

Weight(p) == Pow2(LimbBits - 1 - ((p - 1) % LimbBits))

Bit(a, p) == (a[LimbOf(p)] \div Weight(p)) % 2

\* the magnitude with bit p alone set
UnitMag(p) == [ZeroMag EXCEPT ![LimbOf(p)] = Weight(p)]

RECURSIVE ShiftLimbs(_, _)
ShiftLimbs(n, k) == IF k = 0 THEN n ELSE ShiftLimbs(n \div Base, k - 1)

\* a natural number placed on the grid: its limbs, then the fraction's
IntMag(n) ==
    [l \in 1..IntLimbs |-> ShiftLimbs(n, IntLimbs - l) % Base]
        \o SubSeq(ZeroMag, IntLimbs + 1, NumLimbs)

\* the limbs l..NumLimbs of a + b and the carry out of them
RECURSIVE AddLoop(_, _, _)
AddLoop(a, b, l) ==
    IF l > NumLimbs THEN [limbs |-> <<>>, carry |-> 0]
    ELSE LET low == AddLoop(a, b, l + 1)
             s   == a[l] + b[l] + low.carry
         IN  [limbs |-> <<s % Base>> \o low.limbs, carry |-> s \div Base]

MagAdd(a, b) == AddLoop(a, b, 1).limbs

\* the limbs l..NumLimbs of a - b and the borrow out of them
RECURSIVE SubLoop(_, _, _)
SubLoop(a, b, l) ==
    IF l > NumLimbs THEN [limbs |-> <<>>, borrow |-> 0]
    ELSE LET low == SubLoop(a, b, l + 1)
             s   == a[l] - b[l] - low.borrow
         IN  [limbs |-> <<(s + Base) % Base>> \o low.limbs,
              borrow |-> IF s < 0 THEN 1 ELSE 0]

\* a - b for b <= a
MagSub(a, b) == SubLoop(a, b, 1).limbs

RECURSIVE FirstDiff(_, _, _)
FirstDiff(a, b, l) ==
    IF l > NumLimbs THEN 0 ELSE IF a[l] # b[l] THEN l ELSE FirstDiff(a, b, l + 1)

MagLe(a, b) == LET d == FirstDiff(a, b, 1) IN d = 0 \/ a[d] < b[d]

\* the number of bits of a limb value
RECURSIVE BitLength(_)
BitLength(n) == IF n = 0 THEN 0 ELSE 1 + BitLength(n \div 2)

\* the most significant set bit of a, 0 when a is zero
Lead(a) ==
    LET d == FirstDiff(a, ZeroMag, 1)
    IN  IF d = 0 THEN 0 ELSE (d * LimbBits) - BitLength(a[d]) + 1

\* long division of a magnitude by a small positive integer: the quotient
\* on the grid and the remainder left below the grid
RECURSIVE DivLoop(_, _, _)
DivLoop(a, d, l) ==
    IF l = 0 THEN [quot |-> <<>>, rem |-> 0]
    ELSE LET high == DivLoop(a, d, l - 1)
             t    == a[l] + high.rem * Base
         IN  [rem |-> t % d, quot |-> Append(high.quot, t \div d)]

MagDiv(a, d) == DivLoop(a, d, NumLimbs)

\* a with the bits after bit p cleared
Truncate(a, p) ==
    SubSeq(a, 1, LimbOf(p) - 1)
        \o <<a[LimbOf(p)] - (a[LimbOf(p)] % Weight(p))>>
        \o SubSeq(ZeroMag, LimbOf(p) + 1, NumLimbs)

\* some bit after bit p is set
TailSet(a, p) ==
    \/ a[LimbOf(p)] % Weight(p) # 0
    \/ \E l \in (LimbOf(p) + 1)..NumLimbs : a[l] # 0

\* round to nearest, ties to even, to MantissaBits significant bits;
\* inexact says that nonzero bits were lost below the grid
RoundNearestEven(a, inexact) ==
    LET t    == Lead(a)
        last == t + MantissaBits - 1
    IN  IF t = 0 \/ last >= TotalBits THEN a
        ELSE IF Bit(a, last + 1) = 1 /\ (inexact \/ TailSet(a, last + 1) \/ Bit(a, last) = 1)
             THEN MagAdd(Truncate(a, last), UnitMag(last))
             ELSE Truncate(a, last)

\* a float64 value: sign and magnitude; zero is kept positive
Float(neg, mag) == [neg |-> neg /\ mag # ZeroMag, mag |-> mag]

FZero == Float(FALSE, ZeroMag)

\* an int16 sample converted to float64 (exact)
FromInt(k) == Float(k < 0, IntMag(IF k < 0 THEN -k ELSE k))

\* x / n for a positive integer n
FDivInt(x, n) ==
    LET qr == MagDiv(x.mag, n)
    IN  Float(x.neg, RoundNearestEven(qr.quot, qr.rem # 0))

FAdd(x, y) ==
    IF x.neg = y.neg THEN Float(x.neg, RoundNearestEven(MagAdd(x.mag, y.mag), FALSE))
    ELSE IF MagLe(y.mag, x.mag)
         THEN Float(x.neg, RoundNearestEven(MagSub(x.mag, y.mag), FALSE))
         ELSE Float(y.neg, RoundNearestEven(MagSub(y.mag, x.mag), FALSE))

FLe(x, y) ==
    IF x.neg /\ ~y.neg THEN TRUE
    ELSE IF ~x.neg /\ y.neg THEN FALSE
    ELSE IF x.neg THEN MagLe(y.mag, x.mag)
    ELSE MagLe(x.mag, y.mag)

(***************************************************************************)
(* numpy reductions over the band, as calculate_ndvi_statistics uses them. *)
(* A band is the raster's first band in row-major order; the reductions    *)
(* run over all its elements, whatever its shape.                          *)
(***************************************************************************)

\* src.read(1) / 10000
true_divide(band) == [i \in 1..Len(band) |-> FDivInt(FromInt(band[i]), ScaleDivisor)]

\* np.add.reduce over fewer than 8 elements: one accumulator, left to right
RECURSIVE add_reduce(_, _, _)
add_reduce(a, i, res) ==
    IF i > Len(a) THEN res ELSE add_reduce(a, i + 1, FAdd(res, a[i]))

\* np.mean: the sum divided by the element count
np_mean(a) == FDivInt(add_reduce(a, 1, FZero), Len(a))

RECURSIVE minimum_reduce(_, _, _)
minimum_reduce(a, i, res) ==
    IF i > Len(a) THEN res
    ELSE minimum_reduce(a, i + 1, IF FLe(a[i], res) THEN a[i] ELSE res)

RECURSIVE maximum_reduce(_, _, _)
maximum_reduce(a, i, res) ==
    IF i > Len(a) THEN res
    ELSE maximum_reduce(a, i + 1, IF FLe(res, a[i]) THEN a[i] ELSE res)

\* np.min and np.max of a non-empty array
np_min_pasted(a) == maximum_reduce(a, 2, a[1])

np_min(a) == minimum_reduce(a, 2, a[1])

np_max(a) == maximum_reduce(a, 2, a[1])

\* the dictionary calculate_ndvi_statistics returns for a non-empty band
NdviStatistics(band) ==
    LET raster_data == true_divide(band)
    IN  [mean_ndvi |-> np_mean(raster_data),
         min_ndvi  |-> np_min(raster_data),
         max_ndvi  |-> np_max(raster_data)]

(***************************************************************************)
(* The working directory, the two endpoints and the archive format.        *)
(***************************************************************************)
MaxRuns == 2
MaxBandLen == 3

\* raw int16 samples a band is made of
Samples == {-1000, 0, 1000, 5000, 8000}

\* the band of the specification's scenario, [[5000, 6000], [7000, 8000]]
ScenarioBand == <<5000, 6000, 7000, 8000>>

RECURSIVE BandsOfLen(_)
BandsOfLen(n) ==
    IF n = 0 THEN {<<>>}
    ELSE {Append(b, k) : b \in BandsOfLen(n - 1), k \in Samples}

Bands == UNION {BandsOfLen(n) : n \in 0..MaxBandLen} \cup {ScenarioBand}

\* the bands the processing endpoint delivers in the pipeline runs
ServerBands == {<<>>, <<1000, 1000, 1000>>}

None == "none"

TAR_FILE == "retrieved_files.tar"
EXTRACT_PATH == "retrieved_files"
TIF_NAME == "default.tif"
JSON_FILE == "ndvi_statistics.json"

\* client ids and secrets the script can be configured with: the empty
\* string, the placeholder of the source, and the registered credentials
ClientIds == {"", "<your_client_ID>", "id"}
ClientSecrets == {"", "<your_client_secret>", "secret"}

\* the token endpoint grants a token to the registered credentials only
Registered(id, secret) == id = "id" /\ secret = "secret"

\* an archive member: its name, the band it holds when it is a raster, and
\* the run whose response delivered it
Member(name, band, r) == [name |-> name, band |-> band, run |-> r]

\* a file's bytes: "empty" is a file of zero bytes, "text" and "truncated"
\* are bytes that are no archive, "tar" is a readable archive
Bytes(kind, members) == [bytes |-> kind, members |-> members]

EmptyFile == Bytes("empty", <<>>)

NoFile == Bytes("absent", <<>>)

\* a file under EXTRACT_PATH: the band it holds and the run that wrote it
Extracted(band, r) == [bytes |-> "file", band |-> band, run |-> r]

NoRaster == [bytes |-> "absent", band |-> <<>>, run |-> 0]

\* JSON_FILE: absent, of zero bytes, cut short, or a dumped dictionary
Json(kind, doc) == [bytes |-> kind, doc |-> doc]

NoJson == Json("absent", <<>>)

NoResponse == [status |-> 0, content |-> NoFile]

\* the bodies the processing endpoint can answer run r with
TarBodies(r) ==
    {Bytes("tar", <<Member(TIF_NAME, b, r)>>) : b \in ServerBands}
    \cup {Bytes("tar", <<Member("extra.tif", <<>>, r)>>),
          Bytes("tar", <<Member(TIF_NAME, <<1000, 1000, 1000>>, r),
                         Member("../evil.tif", <<>>, r)>>),
          Bytes("tar", <<Member("/abs/evil.tif", <<>>, r),
                         Member(TIF_NAME, <<1000, 1000, 1000>>, r)>>)}

Responses(r) ==
    {[status |-> 200, content |-> c] : c \in TarBodies(r) \cup {EmptyFile, Bytes("text", <<>>)}}
    \cup {[status |-> 403, content |-> Bytes("text", <<>>)]}

\* names inside EXTRACT_PATH, and member names that resolve outside of it
InsideNames == {TIF_NAME, "extra.tif", "abs/evil.tif"}

IsAbsolute(name) == name = "/abs/evil.tif"

IsTraversal(name) == name = "../evil.tif"

\* tarfile's default extraction filter: "fully_trusted" up to Python 3.13,
\* "data" from Python 3.14 on
ExtractionFilters == {"fully_trusted", "data"}

VARIABLES
    pc,                 \* where main() is
    run,                \* the number of the run, runs share the directory
    client_id, client_secret,
    extraction_filter,
    oauth,              \* the session get_oauth_session returned
    response,           \* the response of oauth.post
    req_result,         \* what request_data returned
    ndvi_stats,         \* what calculate_ndvi_statistics returned
    fs_tar,             \* TAR_FILE
    fs_dir,             \* the files under EXTRACT_PATH
    fs_outside,         \* files extraction wrote outside EXTRACT_PATH
    fs_json,            \* JSON_FILE
    handles,            \* open file handles
    log,                \* the records logged in this run
    token_requests,     \* requests sent to TOKEN_URL in this run
    exit_status,        \* the process's exit status
    started,            \* history: the stages main() called in this run
    completed,          \* history: the stages that returned successfully
    failed_stage,       \* history: the stage that failed
    tar_before,         \* history: TAR_FILE when request_data was called
    json_before         \* history: JSON_FILE when the run began

vars == <<pc, run, client_id, client_secret, extraction_filter, oauth, response,
          req_result, ndvi_stats, fs_tar, fs_dir, fs_outside, fs_json, handles,
          log, token_requests, exit_status, started, completed, failed_stage,
          tar_before, json_before>>

config == <<client_id, client_secret, extraction_filter>>
files == <<fs_tar, fs_dir, fs_outside, fs_json>>

Record(by, level, msg) == [by |-> by, level |-> level, msg |-> msg]

(***************************************************************************)
(* The state when the script is started for the first time in a fresh      *)
(* working directory.                                                      *)
(***************************************************************************)
Init ==
    /\ pc = "start"
    /\ run = 1
    /\ client_id \in ClientIds
    /\ client_secret \in ClientSecrets
    /\ extraction_filter \in ExtractionFilters
    /\ oauth = None
    /\ response = NoResponse
    /\ req_result = None
    /\ ndvi_stats = <<>>
    /\ fs_tar = NoFile
    /\ fs_dir = [n \in InsideNames |-> NoRaster]
    /\ fs_outside = {}
    /\ fs_json = NoJson
    /\ handles = {}
    /\ log = <<>>
    /\ token_requests = 0
    /\ exit_status = <<>>
    /\ started = <<>>
    /\ completed = {}
    /\ failed_stage = None
    /\ tar_before = NoFile
    /\ json_before = NoJson

(***************************************************************************)
(* main(): what follows a stage.                                           *)
(***************************************************************************)

\* the script ends after main() returns: the interpreter exits with status 0
ProcessExit == 0

\* a stage raised: its own except clause logged and re-raised, the except
\* clause of main() logs the exception, main() returns
MainExcept(stage, by, msg) ==
    /\ log' = log \o <<Record(by, "ERROR", msg),
                       Record("main", "ERROR", "An error occurred in the main process")>>
    /\ failed_stage' = stage
    /\ pc' = "exit"
    /\ exit_status' = <<ProcessExit>>

\* `if request_data(oauth, request_payload):` the stages after the request
\* run only when it returned True
AfterRequestAlways(ok) == "extract"

AfterRequest(ok) == IF ok THEN "extract" ELSE "exit"

\* request_data logged an error and returned False
ReturnFalse(msg) ==
    /\ log' = Append(log, Record("request_data", "ERROR", msg))
    /\ req_result' = "False"
    /\ failed_stage' = "request"
    /\ pc' = AfterRequest(FALSE)
    /\ exit_status' = IF AfterRequest(FALSE) = "exit" THEN <<ProcessExit>> ELSE exit_status

\* leaving a `with` block closes its file, however the block is left
WithExitLeak(open, h) == open

WithExit(open, h) == open \ {h}

(***************************************************************************)
(* get_oauth_session(CLIENT_ID, CLIENT_SECRET)                             *)
(***************************************************************************)

\* fetch_token posts the credentials to TOKEN_URL; the endpoint may be
\* unreachable, may reject them, or grants a token to registered credentials
TokenOutcomes(id, secret) ==
    {"unreachable", "rejected"} \cup (IF Registered(id, secret) THEN {"granted"} ELSE {})

get_oauth_session ==
    /\ pc = "start"
    /\ started' = Append(started, "session")
    /\ token_requests' = token_requests + 1
    /\ \E outcome \in TokenOutcomes(client_id, client_secret) :
          IF outcome = "granted"
          THEN /\ oauth' = "session"
               /\ completed' = completed \cup {"session"}
               /\ pc' = "request"
               /\ UNCHANGED <<log, failed_stage, exit_status>>
          ELSE /\ MainExcept("session", "get_oauth_session", "Error obtaining OAuth2 session")
               /\ UNCHANGED <<oauth, completed>>
    /\ UNCHANGED <<run, config, files, response, req_result, ndvi_stats, handles,
                   tar_before, json_before>>

(***************************************************************************)
(* request_data(oauth, request_payload)                                    *)
(***************************************************************************)

\* `if response.status_code == 200`
StatusOkAny(status) == TRUE

StatusOk(status) == status = 200

\* oauth.post(...): an exception, or a response
request_data_post ==
    /\ pc = "request"
    /\ started' = Append(started, "request")
    /\ tar_before' = fs_tar
    /\ \/ /\ response' = NoResponse
          /\ ReturnFalse("Error during data request")
       \/ \E resp \in Responses(run) :
             /\ response' = resp
             /\ IF StatusOk(resp.status)
                THEN /\ pc' = "request_open"
                     /\ UNCHANGED <<log, req_result, failed_stage, exit_status>>
                ELSE ReturnFalse("Request failed with status code")
    /\ UNCHANGED <<run, config, files, oauth, ndvi_stats, handles, token_requests,
                   completed, json_before>>

\* open(TAR_FILE, "wb"): the file is created or truncated, or open raises
request_data_open ==
    /\ pc = "request_open"
    /\ \/ /\ fs_tar' = EmptyFile
          /\ handles' = handles \cup {TAR_FILE}
          /\ pc' = "request_write"
          /\ UNCHANGED <<log, req_result, failed_stage, exit_status>>
       \/ /\ ReturnFalse("Error during data request")
          /\ UNCHANGED <<fs_tar, handles>>
    /\ UNCHANGED <<run, config, fs_dir, fs_outside, fs_json, oauth, response,
                   ndvi_stats, token_requests, started, completed, tar_before,
                   json_before>>

\* what f.write(response.content) leaves in the file
WrittenNothing(content) == EmptyFile

Written(content) == content

\* what a write that raises can leave in the file
PartlyWritten(content) ==
    {EmptyFile} \cup (IF content.bytes = "empty" THEN {} ELSE {Bytes("truncated", <<>>)})

\* f.write(response.content), the file is closed, True is returned; or the
\* write raises, the file is closed, False is returned
request_data_write ==
    /\ pc = "request_write"
    /\ handles' = WithExit(handles, TAR_FILE)
    /\ \/ /\ fs_tar' = Written(response.content)
          /\ log' = Append(log, Record("request_data", "INFO", "Data successfully retrieved and saved"))
          /\ req_result' = "True"
          /\ completed' = completed \cup {"request"}
          /\ pc' = AfterRequest(TRUE)
          /\ UNCHANGED <<failed_stage, exit_status>>
       \/ /\ fs_tar' \in PartlyWritten(response.content)
          /\ ReturnFalse("Error during data request")
          /\ UNCHANGED completed
    /\ UNCHANGED <<run, config, fs_dir, fs_outside, fs_json, oauth, response,
                   ndvi_stats, token_requests, started, tar_before, json_before>>

(***************************************************************************)
(* extract_tar_file(TAR_FILE, EXTRACT_PATH)                                *)
(***************************************************************************)

\* the extraction filter refuses the member and extractall raises
Rejected(filter, m) == filter = "data" /\ IsTraversal(m.name)

\* the member is written outside of EXTRACT_PATH
Escapes(filter, m) == filter = "fully_trusted" /\ (IsAbsolute(m.name) \/ IsTraversal(m.name))

\* the name under EXTRACT_PATH a member that does not escape is written to:
\* the "data" filter strips the leading slash of an absolute name
InsideName(m) == IF IsAbsolute(m.name) THEN "abs/evil.tif" ELSE m.name

\* the directory and the outside after the first n members were extracted
RECURSIVE ExtractMembers(_, _, _, _, _)
ExtractMembers(filter, dir, outside, members, n) ==
    IF n = 0 THEN [dir |-> dir, outside |-> outside]
    ELSE LET before == ExtractMembers(filter, dir, outside, members, n - 1)
             m      == members[n]
         IN  IF Escapes(filter, m)
             THEN [dir |-> before.dir, outside |-> before.outside \cup {m.name}]
             ELSE [dir |-> [before.dir EXCEPT ![InsideName(m)] = Extracted(m.band, m.run)],
                   outside |-> before.outside]

\* tarfile.open(tar_path): raises unless the file is a readable archive
extract_tar_file_open ==
    /\ pc = "extract"
    /\ started' = Append(started, "extract")
    /\ IF fs_tar.bytes = "tar"
       THEN /\ handles' = handles \cup {"tar"}
            /\ pc' = "extract_all"
            /\ UNCHANGED <<log, failed_stage, exit_status>>
       ELSE /\ MainExcept("extract", "extract_tar_file", "Error extracting TAR file")
            /\ UNCHANGED handles
    /\ UNCHANGED <<run, config, files, oauth, response, req_result, ndvi_stats,
                   token_requests, completed, tar_before, json_before>>

\* tar.extractall(path=extract_to): the members are written in order; it
\* stops at a member the filter rejects or at a write that fails, leaving
\* the members written so far
extract_tar_file_all ==
    /\ pc = "extract_all"
    /\ handles' = WithExit(handles, "tar")
    /\ \E n \in 0..Len(fs_tar.members) :
          /\ \A i \in 1..n : ~Rejected(extraction_filter, fs_tar.members[i])
          /\ LET after == ExtractMembers(extraction_filter, fs_dir, fs_outside, fs_tar.members, n)
             IN  /\ fs_dir' = after.dir
                 /\ fs_outside' = after.outside
          /\ IF n = Len(fs_tar.members)
             THEN /\ log' = Append(log, Record("extract_tar_file", "INFO", "Files extracted"))
                  /\ completed' = completed \cup {"extract"}
                  /\ pc' = "calculate"
                  /\ UNCHANGED <<failed_stage, exit_status>>
             ELSE /\ MainExcept("extract", "extract_tar_file", "Error extracting TAR file")
                  /\ UNCHANGED completed
    /\ UNCHANGED <<run, config, fs_tar, fs_json, oauth, response, req_result,
                   ndvi_stats, token_requests, started, tar_before, json_before>>

(***************************************************************************)
(* calculate_ndvi_statistics(TIF_FILE)                                     *)
(***************************************************************************)

\* rasterio.open(tif_file): raises when there is no such file
calculate_ndvi_statistics_open ==
    /\ pc = "calculate"
    /\ started' = Append(started, "calculate")
    /\ IF fs_dir[TIF_NAME].bytes = "file"
       THEN /\ handles' = handles \cup {TIF_NAME}
            /\ pc' = "calculate_read"
            /\ UNCHANGED <<log, failed_stage, exit_status>>
       ELSE /\ MainExcept("calculate", "calculate_ndvi_statistics", "Error calculating NDVI statistics")
            /\ UNCHANGED handles
    /\ UNCHANGED <<run, config, files, oauth, response, req_result, ndvi_stats,
                   token_requests, completed, tar_before, json_before>>

\* src.read(1) / 10000 and the three reductions; np.min raises on an array
\* without elements; the raster is closed either way
calculate_ndvi_statistics_read ==
    /\ pc = "calculate_read"
    /\ handles' = WithExit(handles, TIF_NAME)
    /\ LET band == fs_dir[TIF_NAME].band
       IN  IF Len(band) > 0
           THEN /\ ndvi_stats' = <<NdviStatistics(band)>>
                /\ completed' = completed \cup {"calculate"}
                /\ pc' = "save"
                /\ UNCHANGED <<log, failed_stage, exit_status>>
           ELSE /\ MainExcept("calculate", "calculate_ndvi_statistics", "Error calculating NDVI statistics")
                /\ UNCHANGED <<ndvi_stats, completed>>
    /\ UNCHANGED <<run, config, files, oauth, response, req_result, token_requests,
                   started, tar_before, json_before>>

(***************************************************************************)
(* save_to_json(ndvi_stats, JSON_FILE)                                     *)
(***************************************************************************)

\* open(json_file, "w"): the file is created or truncated, or open raises
save_to_json_open ==
    /\ pc = "save"
    /\ started' = Append(started, "save")
    /\ \/ /\ fs_json' = Json("empty", <<>>)
          /\ handles' = handles \cup {JSON_FILE}
          /\ pc' = "save_dump"
          /\ UNCHANGED <<log, failed_stage, exit_status>>
       \/ /\ MainExcept("save", "save_to_json", "Error saving JSON file")
          /\ UNCHANGED <<fs_json, handles>>
    /\ UNCHANGED <<run, config, fs_tar, fs_dir, fs_outside, oauth, response,
                   req_result, ndvi_stats, token_requests, completed, tar_before,
                   json_before>>

\* json.dump(data, f, indent=4); the file is closed; main() returns
save_to_json_dump ==
    /\ pc = "save_dump"
    /\ handles' = WithExit(handles, JSON_FILE)
    /\ \/ /\ fs_json' = Json("json", ndvi_stats)
          /\ log' = Append(log, Record("save_to_json", "INFO", "NDVI statistics exported"))
          /\ completed' = completed \cup {"save"}
          /\ pc' = "exit"
          /\ exit_status' = <<ProcessExit>>
          /\ UNCHANGED failed_stage
       \/ /\ fs_json' \in {Json("empty", <<>>), Json("truncated", <<>>)}
          /\ MainExcept("save", "save_to_json", "Error saving JSON file")
          /\ UNCHANGED completed
    /\ UNCHANGED <<run, config, fs_tar, fs_dir, fs_outside, oauth, response,
                   req_result, ndvi_stats, token_requests, started, tar_before,
                   json_before>>

(***************************************************************************)
(* The script is started again in the same working directory.              *)
(***************************************************************************)
NewRun ==
    /\ pc = "exit"
    /\ run < MaxRuns
    /\ run' = run + 1
    /\ pc' = "start"
    /\ oauth' = None
    /\ response' = NoResponse
    /\ req_result' = None
    /\ ndvi_stats' = <<>>
    /\ handles' = {}
    /\ log' = <<>>
    /\ token_requests' = 0
    /\ exit_status' = <<>>
    /\ started' = <<>>
    /\ completed' = {}
    /\ failed_stage' = None
    /\ tar_before' = fs_tar
    /\ json_before' = fs_json
    /\ UNCHANGED <<config, files>>

Next ==
    \/ get_oauth_session
    \/ request_data_post
    \/ request_data_open
    \/ request_data_write
    \/ extract_tar_file_open
    \/ extract_tar_file_all
    \/ calculate_ndvi_statistics_open
    \/ calculate_ndvi_statistics_read
    \/ save_to_json_open
    \/ save_to_json_dump
    \/ NewRun

Spec == Init /\ [][Next]_vars

(***************************************************************************)
(* calculate_ndvi_statistics on its own: the runs in which the session,    *)
(* the request and the extraction succeeded, for every band the archive    *)
(* can deliver in default.tif, and for an archive without default.tif.     *)
(***************************************************************************)
InitStats ==
    \E tar \in {Bytes("tar", <<Member(TIF_NAME, b, 1)>>) : b \in Bands}
                 \cup {Bytes("tar", <<Member("extra.tif", <<>>, 1)>>)} :
       /\ pc = "calculate"
       /\ run = 1
       /\ client_id = "id"
       /\ client_secret = "secret"
       /\ extraction_filter \in ExtractionFilters
       /\ oauth = "session"
       /\ response = [status |-> 200, content |-> tar]
       /\ req_result = "True"
       /\ ndvi_stats = <<>>
       /\ fs_tar = tar
       /\ fs_dir = ExtractMembers(extraction_filter, [n \in InsideNames |-> NoRaster], {},
                                  tar.members, Len(tar.members)).dir
       /\ fs_outside = {}
       /\ fs_json = NoJson
       /\ handles = {}
       /\ log = <<Record("request_data", "INFO", "Data successfully retrieved and saved"),
                  Record("extract_tar_file", "INFO", "Files extracted")>>
       /\ token_requests = 1
       /\ exit_status = <<>>
       /\ started = <<"session", "request", "extract">>
       /\ completed = {"session", "request", "extract"}
       /\ failed_stage = None
       /\ tar_before = NoFile
       /\ json_before = NoJson

NextStats ==
    \/ calculate_ndvi_statistics_open
    \/ calculate_ndvi_statistics_read

SpecStats == InitStats /\ [][NextStats]_vars

(***************************************************************************)
(* Properties.                                                             *)
(***************************************************************************)
StageOrder == <<"session", "request", "extract", "calculate", "save">>

Upstream == {"session", "request", "extract", "calculate"}

\* C1: in a run the stages are called in the order session, request,
\* extract, calculate, save, each at most once; a stage is called only after
\* the stage before it returned successfully; after a stage failed no other
\* stage is called.
C1_StagesInOrder ==
    /\ Len(started) <= Len(StageOrder)
    /\ \A i \in 1..Len(started) : started[i] = StageOrder[i]
    /\ \A i \in 2..Len(started) : started[i - 1] \in completed
    /\ failed_stage # None => (started # <<>> /\ started[Len(started)] = failed_stage)

\* a run whose request failed while the archive of the run before lay ready
C1_Witness ==
    /\ pc = "exit"
    /\ failed_stage = "request"
    /\ started = <<"session", "request">>
    /\ fs_tar.bytes = "tar"

C3_Original ==
    req_result # None => (fs_tar.bytes \notin {"absent", "empty"} <=> req_result = "True")

\* C3, amended: after request_data returned True the endpoint answered 200
\* and TAR_FILE holds exactly the response body, empty when the body is;
\* after it returned False TAR_FILE is as it was before the call, or, when
\* the answer was 200 and the write failed, empty or cut short.
C3_Amended ==
    /\ req_result = "True" => (response.status = 200 /\ fs_tar = response.content)
    /\ req_result = "False" =>
          \/ fs_tar = tar_before
          \/ response.status = 200 /\ fs_tar.bytes \in {"empty", "truncated"}

\* True was returned for an empty body: the archive exists and is empty
C3_Witness ==
    /\ req_result = "True"
    /\ response.content = EmptyFile
    /\ fs_tar = EmptyFile

\* C4: after an answer with a status other than 200, request_data returned
\* False and TAR_FILE is what it was before the call.
C4_NonOkLeavesArchive ==
    (req_result # None /\ response.status \notin {0, 200}) =>
        (req_result = "False" /\ fs_tar = tar_before)

\* a 403 answer with the archive of the run before in place
C4_Witness ==
    /\ req_result = "False"
    /\ response.status = 403
    /\ tar_before.bytes = "tar"
    /\ fs_tar = tar_before

\* C5: extraction writes nothing outside EXTRACT_PATH, and fails for an
\* archive with a member whose path leaves EXTRACT_PATH.
C5_NoEscape ==
    /\ fs_outside = {}
    /\ "extract" \in completed =>
          \A i \in 1..Len(fs_tar.members) :
             ~(IsAbsolute(fs_tar.members[i].name) \/ IsTraversal(fs_tar.members[i].name))

\* C6: with an empty client id or client secret no request is sent to the
\* token endpoint.
C6_NoTokenRequest ==
    (client_id = "" \/ client_secret = "") => token_requests = 0

\* C7: a run in which a stage failed ends with an error record logged by
\* main() and with a non-zero exit status; a run ends with exit status 0
\* only if the document was written.
C7_FailureReported ==
    pc = "exit" =>
        /\ failed_stage # None =>
              /\ \E i \in 1..Len(log) : log[i].by = "main" /\ log[i].level = "ERROR"
              /\ exit_status # <<0>>
        /\ exit_status = <<0>> => "save" \in completed

\* C9: no file handle is open where a stage begins or after main() returned.
C9_HandlesReleased ==
    pc \in {"start", "request", "extract", "calculate", "save", "exit"} => handles = {}

\* the statistics raised inside the `with` block and the raster was closed
C9_Witness ==
    /\ pc = "exit"
    /\ failed_stage = "calculate"
    /\ fs_dir[TIF_NAME].bytes = "file"
    /\ handles = {}

\* C10: the statistics a run writes were computed from a default.tif that
\* this run extracted.
C10_FreshRaster ==
    "save" \in completed => fs_dir[TIF_NAME].run = run

(***************************************************************************)
(* C8: the statistics.  Exact arithmetic on the grid, to measure how far   *)
(* the float64 mean is from the interval between min and max.              *)
(***************************************************************************)
Negated(x) == Float(~x.neg, x.mag)

\* x + y without rounding
ExactAdd(x, y) ==
    IF x.neg = y.neg THEN Float(x.neg, MagAdd(x.mag, y.mag))
    ELSE IF MagLe(y.mag, x.mag) THEN Float(x.neg, MagSub(x.mag, y.mag))
    ELSE Float(y.neg, MagSub(y.mag, x.mag))

RECURSIVE ExactTimes(_, _)
ExactTimes(x, n) == IF n = 0 THEN FZero ELSE ExactAdd(ExactTimes(x, n - 1), x)

RECURSIVE ExactSum(_, _)
ExactSum(a, n) == IF n = 0 THEN FZero ELSE ExactAdd(ExactSum(a, n - 1), a[n])

\* m * 2^-13
Shift13(m) == MagDiv(m, Pow2(13)).quot

\* m * 2^-52
ScaledDown(m) == Shift13(Shift13(Shift13(Shift13(m))))

\* n * 2^-52 * max(|lo|, |hi|): the rounding error allowed to a mean of n
\* values between lo and hi
Tolerance(lo, hi, n) ==
    ExactTimes(Float(FALSE, ScaledDown(IF MagLe(lo.mag, hi.mag) THEN hi.mag ELSE lo.mag)), n)

ConstantBand(b) == \A i \in 1..Len(b) : b[i] = b[1]

\* the float64 nearest to p / q
Ratio(p, q) == FDivInt(FromInt(p), q)

\* min and max are the least and the greatest of the samples divided by
\* 10000, all three equal k / 10000 for min and max of a band that is k
\* everywhere, and the scenario's band gives min 0.5 and max 0.8
MinMaxRight(b, s) ==
    LET x == true_divide(b)
    IN  /\ \A i \in 1..Len(b) : FLe(s.min_ndvi, x[i]) /\ FLe(x[i], s.max_ndvi)
        /\ \E i \in 1..Len(b) : s.min_ndvi = x[i]
        /\ \E i \in 1..Len(b) : s.max_ndvi = x[i]
        /\ ConstantBand(b) =>
              s.min_ndvi = Ratio(b[1], ScaleDivisor) /\ s.max_ndvi = Ratio(b[1], ScaleDivisor)
        /\ b = ScenarioBand => s.min_ndvi = Ratio(5, 10) /\ s.max_ndvi = Ratio(8, 10)

\* C8, as claimed: for a band with elements the statistics are the mean,
\* the least and the greatest of the samples divided by 10000, with
\* min <= mean <= max, all three k / 10000 for a band that is k everywhere
\* and 0.65, 0.5, 0.8 for the scenario's band; the operation fails for a
\* band without elements.
C8_Original ==
    /\ "calculate" \in completed =>
          LET b == fs_dir[TIF_NAME].band
              s == ndvi_stats[1]
          IN  /\ Len(b) > 0
              /\ MinMaxRight(b, s)
              /\ FLe(s.min_ndvi, s.mean_ndvi) /\ FLe(s.mean_ndvi, s.max_ndvi)
              /\ ConstantBand(b) => s.mean_ndvi = Ratio(b[1], ScaleDivisor)
              /\ b = ScenarioBand => s.mean_ndvi = Ratio(65, 100)
    /\ (pc \in {"save", "exit"} /\ fs_dir[TIF_NAME].band = <<>>) => failed_stage = "calculate"

\* C8, amended: as claimed for min and max, for the scenario's band and for
\* a band without elements; the mean is the arithmetic mean of the samples
\* divided by 10000 up to the float64 rounding of the sum and of its
\* division, so that with t = n * 2^-52 * max(|min|, |max|) for a band of n
\* samples the mean is within t of the arithmetic mean and
\* min - t <= mean <= max + t.
C8_Amended ==
    /\ "calculate" \in completed =>
          LET b == fs_dir[TIF_NAME].band
              s == ndvi_stats[1]
              n == Len(b)
              t == Tolerance(s.min_ndvi, s.max_ndvi, n)
              d == ExactAdd(ExactTimes(s.mean_ndvi, n), Negated(ExactSum(true_divide(b), n)))
          IN  /\ n > 0
              /\ MinMaxRight(b, s)
              /\ FLe(ExactAdd(s.min_ndvi, Negated(t)), s.mean_ndvi)
              /\ FLe(s.mean_ndvi, ExactAdd(s.max_ndvi, t))
              /\ MagLe(d.mag, ExactTimes(t, n).mag)
              /\ b = ScenarioBand => s.mean_ndvi = Ratio(65, 100)
    /\ (pc \in {"save", "exit"} /\ fs_dir[TIF_NAME].band = <<>>) => failed_stage = "calculate"

\* statistics of a band that is k everywhere whose mean lies above max
C8_Witness ==
    /\ "calculate" \in completed
    /\ ConstantBand(fs_dir[TIF_NAME].band)
    /\ ~FLe(ndvi_stats[1].mean_ndvi, ndvi_stats[1].max_ndvi)

====
